---- MODULE Spec2Model ----
(***************************************************************************)
(* Model of octofont3's Octo code generator (textfont_to_octo.py):         *)
(* OctoStream, emit_octo, and the CHIP-8/Octo routines emit_octo prints.   *)
(*                                                                         *)
(* The output stream is a sequence of chunks, one per OctoStream.print     *)
(* call: the indent prefix written first, then the printed objects and the *)
(* line end.  A chunk keeps the printed statements (txt), the numbers      *)
(* formatted into them (args) and the hex literals of a data line (hex).   *)
(***************************************************************************)
EXTENDS Integers, Sequences, FiniteSets, TLC

\* ---------------------------------------------------------------- bounds

\* most glyph codes in [first_glyph, last_glyph] of a font given to emit_octo
MaxGlyphs == 3

\* glyph codes of the fonts whose generated routine is run on the VM
NumDrawGlyphs == 34

\* ------------------------------------------------------ program constants

\* char_size: bits of a packed row
CharSize == 8

\* registers of the target VM are 8 bits wide; emit_octo prints 256 - offset
RegMod == 256

\* available_chars looks at range(255)
HeaderRange == 255

\* write_queued_data_with_label's default max_bytes_per_line
DefaultMaxBytesPerLine == 16

Prefix == "smallfont"
DrawFuncName == Prefix \o "_draw_glyph"
WidthFuncName == Prefix \o "_glyph_width"
WidthTableName == Prefix \o "_width_table"
GlyphTableName == Prefix \o "_glyph_table"
NoOffsetName == WidthFuncName \o "_no_offset"
DrawStrName == Prefix \o "draw_str"

\* ------------------------------------------------------------ the inputs

\* An ImageCoreLike glyph: size (width, height) and one byte per pixel.
MkGlyph(w, h, px) == [size |-> <<w, h>>, pixels |-> px]

\* 8x8, row 0 all foreground
GlyphFull == MkGlyph(8, 8, [k \in 1..64 |-> IF k <= 8 THEN 255 ELSE 0])
GlyphSmall == MkGlyph(2, 2, <<255, 0, 0, 1>>)
\* one row only: shorter than a font of height 2 or more
GlyphShort == MkGlyph(2, 1, <<0, 255>>)
\* an empty bitmap
GlyphEmpty == MkGlyph(0, 0, <<>>)

GlyphChoices == {GlyphFull, GlyphSmall, GlyphShort, GlyphEmpty}
NoGlyph == MkGlyph(-1, -1, <<>>)

MaxWidthChoices == {-1, 0, 2, 8, 9}
MaxHeightChoices == {-1, 0, 1, 2, 8, 9}
FirstGlyphChoices == {0, 65}

\* len(glyph): the raw length of the bitmap, one byte per pixel
GlyphLen(g) == Len(g.pixels)

FontOf(mw, mh, f, n, g) ==
    [max_width |-> mw, max_height |-> mh, first_glyph |-> f,
     last_glyph |-> f + n - 1,
     glyph |-> [c \in {d \in f..(f + n - 1) : g[d] # NoGlyph} |-> g[c]]]

FontsOfRange(f, n) ==
    { FontOf(mw, mh, f, n, g) :
        mw \in MaxWidthChoices, mh \in MaxHeightChoices,
        g \in [f..(f + n - 1) -> GlyphChoices \cup {NoGlyph}] }

Fonts == UNION { FontsOfRange(f, n) : f \in FirstGlyphChoices, n \in 1..MaxGlyphs }

\* ------------------------------------------------------------ formatting

HexDigit(d) ==
    CASE d = 0 -> "0" [] d = 1 -> "1" [] d = 2 -> "2" [] d = 3 -> "3"
      [] d = 4 -> "4" [] d = 5 -> "5" [] d = 6 -> "6" [] d = 7 -> "7"
      [] d = 8 -> "8" [] d = 9 -> "9" [] d = 10 -> "a" [] d = 11 -> "b"
      [] d = 12 -> "c" [] d = 13 -> "d" [] d = 14 -> "e" [] d = 15 -> "f"

\* hex(value)[2:] for value >= 0
RECURSIVE HexDigits(_)
HexDigits(v) ==
    IF v < 16 THEN HexDigit(v) ELSE HexDigits(v \div 16) \o HexDigit(v % 16)

\* str.zfill
RECURSIVE ZFill(_, _)
ZFill(s, n) == IF Len(s) >= n THEN s ELSE ZFill("0" \o s, n)

padded_hex(value) == "0x" \o ZFill(HexDigits(value), 2)

\* s * n
RECURSIVE Repeat(_, _)
Repeat(s, n) == IF n <= 0 THEN "" ELSE s \o Repeat(s, n - 1)

Min2(a, b) == IF a <= b THEN a ELSE b

\* the elements of a set of integers in ascending order
RECURSIVE Ascending(_)
Ascending(S) ==
    IF S = {} THEN <<>>
    ELSE LET m == CHOOSE x \in S : \A y \in S : x <= y
         IN <<m>> \o Ascending(S \ {m})

\* ------------------------------------------------------------ OctoStream
\* An emitter o is the record [self, stream, indent_level, indent_chars,
\* byte_queue, prefix_cache, pad_cache, err]; err names the exception
\* raised ("" for none), after which nothing more is executed.

Chunk(sec, kind, prefix, txt, args, hex, end) ==
    [sec |-> sec, kind |-> kind, prefix |-> prefix, txt |-> txt,
     args |-> args, hex |-> hex, end |-> end]

\* OctoStream.__init__ on a new object
NewOctoStream(id, stream, prefix_cache, pad_cache) ==
    [self |-> id, stream |-> stream, indent_level |-> 0, indent_chars |-> "  ",
     byte_queue |-> <<>>, prefix_cache |-> prefix_cache,
     pad_cache |-> pad_cache, err |-> ""]

\* get_indent_prefix under functools.cache: the cache is keyed by
\* (self, level); a miss computes from _indent_level, not from level
GetIndentPrefix(o, level) ==
    IF <<o.self, level>> \in DOMAIN o.prefix_cache
    THEN o.prefix_cache[<<o.self, level>>]
    ELSE Repeat(o.indent_chars, o.indent_level)

\* print: write the prefix, then the objects and the line end
WriteChunk(o, sec, kind, txt, args, hex, end) ==
    IF o.err # "" THEN o
    ELSE LET p == GetIndentPrefix(o, o.indent_level)
         IN [o EXCEPT
               !.stream = Append(@, Chunk(sec, kind, p, txt, args, hex, end)),
               !.prefix_cache = (<<o.self, o.indent_level>> :> p) @@ @]

OctoPrint(o, sec, txt, args, end) ==
    WriteChunk(o, sec, "print", txt, args, <<>>, end)

\* OutputHelper.comment: a line that begins with #
Comment(o, sec, txt, args) ==
    WriteChunk(o, sec, "comment", txt, args, <<>>, "\n")

\* label: print(f": {label_name}", end=end)
Label(o, sec, label_name, end) ==
    WriteChunk(o, sec, "label", <<label_name>>, <<>>, <<>>, end)

\* C12 mutant: the setter stores any value
SetIndentLevelUnchecked(o, new_level) ==
    IF o.err # "" THEN o ELSE [o EXCEPT !.indent_level = new_level]

\* the indent_level setter
SetIndentLevel(o, new_level) ==
    IF o.err # "" THEN o
    ELSE IF new_level < 0 THEN [o EXCEPT !.err = "ValueError"]
    ELSE [o EXCEPT !.indent_level = new_level]

\* multi_statement_line: the statements joined by the indent characters
MultiStatementLine(o, sec, statements) ==
    OctoPrint(o, sec, statements, <<>>, "\n")

BeginIndentedFunc(o, sec, label_name) ==
    LET o1 == Label(o, sec, label_name, "\n")
    IN SetIndentLevel(o1, o1.indent_level + 1)

EndIndentedFunc(o, sec) ==
    LET o1 == OctoPrint(o, sec, <<"return">>, <<>>, "\n")
    IN SetIndentLevel(o1, o1.indent_level - 1)

\* pad_for_label_name under functools.cache, keyed by (self, label_name)
PadForLabelName(o, label_name) ==
    IF <<o.self, label_name>> \in DOMAIN o.pad_cache
    THEN o.pad_cache[<<o.self, label_name>>]
    ELSE Repeat(" ", Len(label_name) + 3)

\* ------------------------------------------------- emit_octo: the routines

DrawCharReg == "v0"
DrawXReg == "v1"
DrawYReg == "v2"
WidthCharReg == "v0"

StmtAddIndex == "i += " \o DrawCharReg
StmtShl == DrawCharReg \o " <<= " \o DrawCharReg
StmtShr == DrawCharReg \o " >>= " \o DrawCharReg
StmtAddImm == DrawCharReg \o " += "
StmtSetGlyphTable == "i := " \o GlyphTableName
StmtSetWidthTable == "i := " \o WidthTableName
StmtSprite == "sprite " \o DrawXReg \o " " \o DrawYReg \o " "
StmtAddWidth == DrawXReg \o " += " \o WidthCharReg
StmtAddKern == DrawXReg \o " += 1"
StmtLoad == "load " \o WidthCharReg

\* A call on the emitter made by emit_octo
Call(op, txt, args) == [op |-> op, txt |-> txt, args |-> args]

ApplyCall(o, sec, c) ==
    CASE c.op = "print" -> OctoPrint(o, sec, c.txt, c.args, "\n")
      [] c.op = "comment" -> Comment(o, sec, c.txt, c.args)
      [] c.op = "label" -> Label(o, sec, c.txt[1], "\n")
      [] c.op = "multi" -> MultiStatementLine(o, sec, c.txt)
      [] c.op = "begin" -> BeginIndentedFunc(o, sec, c.txt[1])
      [] c.op = "end" -> EndIndentedFunc(o, sec)
      [] c.op = "indent" -> SetIndentLevel(o, o.indent_level + c.args[1])
      [] c.op = "raise" -> IF o.err # "" THEN o ELSE [o EXCEPT !.err = c.txt[1]]

RECURSIVE RunCalls(_, _, _)
RunCalls(o, sec, calls) ==
    IF calls = <<>> THEN o
    ELSE RunCalls(ApplyCall(o, sec, Head(calls)), sec, Tail(calls))

\* [stmt] * k
Rep(stmt, k) == [j \in 1..k |-> stmt]

\* int(log(font_height, 2)) for font_height >= 1
RECURSIVE FloorLog2(_)
FloorLog2(h) == IF h < 2 THEN 0 ELSE 1 + FloorLog2(h \div 2)

\* n_shift and remainder as emit_octo computes them
ShiftPlan(font_height) ==
    LET n == FloorLog2(font_height)
        r == font_height - n * n
    IN IF (n * 2 + r + 1) >= font_height
       THEN [n_shift |-> 0, remainder |-> font_height]
       ELSE [n_shift |-> n, remainder |-> r]

\* the lines that advance i by the glyph's offset in the glyph table
ShiftCalls(font_height) ==
    LET plan == ShiftPlan(font_height)
    IN IF plan.n_shift > 0
       THEN << Call("multi", Rep(StmtAddIndex, plan.remainder), <<>>),
               Call("multi", Rep(StmtShl, plan.n_shift), <<>>),
               Call("print", <<StmtAddIndex>>, <<>>),
               Call("multi", Rep(StmtShr, plan.n_shift), <<>>) >>
       ELSE << Call("multi", Rep(StmtAddIndex, plan.remainder), <<>>) >>

\* the codes of range(255) that have a glyph, ascending
AvailableChars(font) ==
    Ascending({c \in 0..(HeaderRange - 1) : c \in DOMAIN font.glyph})

HeaderCalls(font) ==
    << Call("print", <<>>, <<>>),
       Call("print", <<"# Font: " \o Prefix \o "  Available characters: ">>,
            AvailableChars(font)) >>

RangeComment(font, reg) ==
    Call("comment", <<"Must not be called with " \o reg \o " < ", " or " \o reg \o " > ", "!">>,
         <<font.first_glyph, font.last_glyph>>)

\* the draw routine up to the point where log(font_height, 2) is taken
DrawGlyphHead(font) ==
    << Call("print", <<>>, <<>>),
       Call("comment", <<"Call with " \o DrawCharReg \o " = ASCII character, "
                          \o DrawXReg \o " = x, " \o DrawYReg \o " = y">>, <<>>),
       Call("comment", <<"Returns with " \o DrawXReg
                          \o " incremented by the width of the glyph plus ">>, <<1>>),
       Call("comment", <<"Clobbers vF, I">>, <<>>),
       RangeComment(font, DrawCharReg),
       Call("begin", <<DrawFuncName>>, <<>>),
       Call("print", <<StmtAddImm>>, <<RegMod - font.first_glyph>>),
       Call("print", <<StmtSetGlyphTable>>, <<>>) >>

DrawGlyphTail(font) ==
    << Call("print", <<StmtSprite>>, <<font.max_height>>),
       Call("print", <<NoOffsetName>>, <<>>),
       Call("print", <<StmtAddWidth>>, <<>>),
       Call("print", <<StmtAddKern>>, <<>>),
       Call("end", <<>>, <<>>) >>

\* log raises ValueError on a font_height that is not positive
DrawGlyphCalls(font) ==
    IF font.max_height <= 0
    THEN DrawGlyphHead(font) \o << Call("raise", <<"ValueError">>, <<>>) >>
    ELSE DrawGlyphHead(font) \o ShiftCalls(font.max_height) \o DrawGlyphTail(font)

WidthRoutineCalls(font) ==
    << Call("print", <<>>, <<>>),
       Call("comment", <<"Call with " \o WidthCharReg \o " = ASCII character">>, <<>>),
       Call("comment", <<"Returns " \o WidthCharReg \o " = width of glyph in pixels">>, <<>>),
       Call("comment", <<"Clobbers vF, I">>, <<>>),
       RangeComment(font, WidthCharReg),
       Call("label", <<WidthFuncName>>, <<>>),
       Call("indent", <<>>, <<1>>),
       Call("print", <<StmtAddImm>>, <<RegMod - font.first_glyph>>),
       Call("indent", <<>>, <<-1>>),
       Call("begin", <<NoOffsetName>>, <<>>),
       Call("print", <<StmtSetWidthTable>>, <<>>),
       Call("print", <<"i += " \o WidthCharReg>>, <<>>),
       Call("print", <<StmtLoad>>, <<>>),
       Call("end", <<>>, <<>>) >>

DrawStrCalls == << Call("label", <<DrawStrName>>, <<>>) >>

\* --------------------------------------------------- emit_octo: the tables

\* one byte of the width table
GlyphWidthByte(glyph, font_height) == GlyphLen(glyph) \div font_height

\* packed_row_data = (packed_row_data << 1) | (1 if pixel else 0)
FoldPixel(packed_row_data, pixel) ==
    packed_row_data * 2 + (IF pixel # 0 THEN 1 ELSE 0)

RECURSIVE FoldRow(_, _)
FoldRow(packed_row_data, pixels_from_image) ==
    IF pixels_from_image = <<>> THEN packed_row_data
    ELSE FoldRow(FoldPixel(packed_row_data, Head(pixels_from_image)),
                 Tail(pixels_from_image))

RECURSIVE Pow2(_)
Pow2(k) == IF k <= 0 THEN 1 ELSE 2 * Pow2(k - 1)

\* C8 mutant: the row is left where the fold put it, in the low bits
AlignLeftOmitted(packed_row_data, glyph_width) == packed_row_data

\* packed_row_data <<= char_size - glyph_width (the shift is not negative)
AlignLeft(packed_row_data, glyph_width) ==
    packed_row_data * Pow2(CharSize - glyph_width)

PackRow(pixels_from_image, glyph_width) ==
    AlignLeft(FoldRow(0, pixels_from_image), glyph_width)

\* pixels[row_start_index:row_start_index + glyph_width], 0-based
RowSlice(pixels, row_start_index, glyph_width) ==
    SubSeq(pixels, row_start_index + 1,
           Min2(row_start_index + glyph_width, Len(pixels)))

\* range(0, len(pixels), glyph_width) for glyph_width >= 1
RowStarts(pixels, glyph_width) ==
    Ascending({k \in 0..(Len(pixels) - 1) : k % glyph_width = 0})

\* the packed rows of one glyph, top to bottom
GlyphRowBytes(glyph) ==
    LET glyph_width == glyph.size[1]
        starts == RowStarts(glyph.pixels, glyph_width)
    IN [k \in 1..Len(starts) |->
          PackRow(RowSlice(glyph.pixels, starts[k], glyph_width), glyph_width)]

\* what the glyph loop body raises: range() with step 0, a negative shift
\* count; a negative step gives no rows
GlyphRowError(glyph) ==
    IF glyph.size[1] = 0 THEN "ValueError"
    ELSE IF glyph.size[1] > CharSize /\ Len(glyph.pixels) > 0 THEN "ValueError"
    ELSE ""

\* C10 mutant: the codes are visited in the order of an unordered collection
RangeAnyOrder(range_left) == range_left

\* the iteration order of range(first_glyph, last_glyph + 1)
RangeNext(range_left) == {c \in range_left : \A d \in range_left : c <= d}

\* ------------------------------------------------------------------ state

VARIABLES
    font,            \* font_data given to emit_octo
    run,             \* which call of emit_octo this is (1 or 2, same process)
    pc,              \* position in emit_octo
    err,             \* the exception that ended the call ("" for none)
    octo_id,         \* identity of the OctoStream of this call
    stream,          \* what the call has written to its stream so far
    indent_level,    \* OctoStream._indent_level
    byte_queue,      \* OctoStream.byte_queue
    prefix_cache,    \* functools.cache of get_indent_prefix (per process)
    pad_cache,       \* functools.cache of pad_for_label_name (per process)
    label_pad,       \* write_queued_data_with_label's local
    range_left,      \* codes the running for loop has not visited yet
    first_stream,    \* what the first call wrote
    first_err,       \* how the first call ended
    row,             \* row packing: pixels_from_image
    row_left,        \* row packing: pixels the for loop has not visited yet
    row_width,       \* row packing: glyph_width
    packed_row_data, \* row packing: the accumulator
    pack_pc,         \* row packing: position
    code,            \* VM: the assembled program
    labels,          \* VM: address of each label
    mem,             \* VM: the bytes of the width table
    vpc,             \* VM: program counter (0 once returned to the caller)
    stack,           \* VM: return addresses
    v0,              \* VM: character / width register
    v1,              \* VM: x register
    ireg,            \* VM: index register, [base, off]
    vm_in,           \* VM: the values the routine was entered with
    bytes_per_line,  \* OctoStream alone: max_bytes_per_line of the write calls
    queued,          \* OctoStream alone: every byte given to queue_data so far
    begun,           \* OctoStream alone: the begin_indented_func calls not ended
    closed,          \* OctoStream alone: the begin/end pair ended last
    last_op          \* OctoStream alone: the indent operation made last

emitVars == <<font, run, pc, err, octo_id, stream, indent_level, byte_queue,
              prefix_cache, pad_cache, label_pad, range_left, first_stream,
              first_err>>
packVars == <<row, row_left, row_width, packed_row_data, pack_pc>>
vmVars == <<code, labels, mem, vpc, stack, v0, v1, ireg, vm_in>>
streamVars == <<bytes_per_line, queued, begun, closed, last_op>>
vars == <<emitVars, packVars, vmVars, streamVars>>

PackIdle ==
    /\ row = <<>> /\ row_left = <<>> /\ row_width = 0
    /\ packed_row_data = 0 /\ pack_pc = "idle"

VmIdle ==
    /\ code = <<>> /\ labels = <<>> /\ mem = <<>> /\ vpc = 0 /\ stack = <<>>
    /\ v0 = 0 /\ v1 = 0 /\ ireg = [base |-> "", off |-> 0]
    /\ vm_in = [c |-> 0, x |-> 0, h |-> 0]

NoPair == [from |-> -1, to |-> -1, assigned |-> FALSE]
NoOp == [kind |-> "", arg |-> 0, before |-> 0]

StreamIdle ==
    /\ bytes_per_line = DefaultMaxBytesPerLine /\ queued = <<>>
    /\ begun = <<>> /\ closed = NoPair /\ last_op = NoOp

EmitIdle ==
    /\ run = 1 /\ pc = "idle" /\ err = "" /\ octo_id = 1 /\ stream = <<>>
    /\ indent_level = 0 /\ byte_queue = <<>> /\ prefix_cache = <<>>
    /\ pad_cache = <<>> /\ label_pad = "" /\ range_left = {}
    /\ first_stream = <<>> /\ first_err = ""

\* ------------------------------------------------------ emit_octo: actions

\* the OctoStream of the running call
Octo ==
    [self |-> octo_id, stream |-> stream, indent_level |-> indent_level,
     indent_chars |-> "  ", byte_queue |-> byte_queue,
     prefix_cache |-> prefix_cache, pad_cache |-> pad_cache, err |-> ""]

Commit(o, next_pc) ==
    /\ stream' = o.stream
    /\ indent_level' = o.indent_level
    /\ byte_queue' = o.byte_queue
    /\ prefix_cache' = o.prefix_cache
    /\ pad_cache' = o.pad_cache
    /\ err' = o.err
    /\ pc' = IF o.err # "" THEN "error" ELSE next_pc

Raise(kind) ==
    /\ pc' = "error"
    /\ err' = kind
    /\ UNCHANGED <<stream, indent_level, byte_queue, prefix_cache, pad_cache>>

GlyphRange(f) == (f.first_glyph)..(f.last_glyph)

\* The dimension checks and OctoStream(stream).  print is a local of
\* emit_octo, bound only after the checks: a failing check raises
\* UnboundLocalError at its print call, before anything is written.
CheckDimensions ==
    /\ pc = "check"
    /\ IF font.max_width = 0 \/ font.max_height = 0
          \/ font.max_width > 8 \/ font.max_height > 8
       THEN Raise("UnboundLocalError")
       ELSE Commit(NewOctoStream(octo_id, stream, prefix_cache, pad_cache), "header")
    /\ UNCHANGED <<font, run, octo_id, label_pad, range_left, first_stream, first_err>>
    /\ UNCHANGED <<packVars, vmVars, streamVars>>

EmitHeader ==
    /\ pc = "header"
    /\ Commit(RunCalls(Octo, "header", HeaderCalls(font)), "draw")
    /\ UNCHANGED <<font, run, octo_id, label_pad, range_left, first_stream, first_err>>
    /\ UNCHANGED <<packVars, vmVars, streamVars>>

EmitDrawGlyph ==
    /\ pc = "draw"
    /\ Commit(RunCalls(Octo, "draw", DrawGlyphCalls(font)), "width")
    /\ UNCHANGED <<font, run, octo_id, label_pad, range_left, first_stream, first_err>>
    /\ UNCHANGED <<packVars, vmVars, streamVars>>

EmitWidthRoutines ==
    /\ pc = "width"
    /\ Commit(RunCalls(Octo, "width", WidthRoutineCalls(font)), "drawstr")
    /\ UNCHANGED <<font, run, octo_id, label_pad, range_left, first_stream, first_err>>
    /\ UNCHANGED <<packVars, vmVars, streamVars>>

\* C4 mutant: the string-draw label is left out
EmitDrawStrOmitted ==
    /\ pc = "drawstr"
    /\ Commit(Octo, "wt_queue")
    /\ range_left' = GlyphRange(font)
    /\ UNCHANGED <<font, run, octo_id, label_pad, first_stream, first_err>>
    /\ UNCHANGED <<packVars, vmVars, streamVars>>

EmitDrawStr ==
    /\ pc = "drawstr"
    /\ Commit(RunCalls(Octo, "drawstr", DrawStrCalls), "wt_queue")
    /\ range_left' = GlyphRange(font)
    /\ UNCHANGED <<font, run, octo_id, label_pad, first_stream, first_err>>
    /\ UNCHANGED <<packVars, vmVars, streamVars>>

\* one pass of the width loop: glyphs[i] raises KeyError on a missing code
QueueWidth ==
    /\ pc = "wt_queue"
    /\ \E i \in RangeNext(range_left) :
         /\ range_left' = range_left \ {i}
         /\ IF i \notin DOMAIN font.glyph
            THEN Raise("KeyError")
            ELSE Commit([Octo EXCEPT !.byte_queue =
                           Append(@, GlyphWidthByte(font.glyph[i], font.max_height))],
                        "wt_queue")
    /\ UNCHANGED <<font, run, octo_id, label_pad, first_stream, first_err>>
    /\ UNCHANGED <<packVars, vmVars, streamVars>>

\* one pass of the glyph loop: every row of one glyph is packed and queued
QueueGlyph ==
    /\ pc = "gt_queue"
    /\ \E glyph_code \in RangeNext(range_left) :
         /\ range_left' = range_left \ {glyph_code}
         /\ IF glyph_code \notin DOMAIN font.glyph
            THEN Raise("KeyError")
            ELSE IF GlyphRowError(font.glyph[glyph_code]) # ""
            THEN Raise(GlyphRowError(font.glyph[glyph_code]))
            ELSE Commit([Octo EXCEPT !.byte_queue =
                           @ \o GlyphRowBytes(font.glyph[glyph_code])],
                        "gt_queue")
    /\ UNCHANGED <<font, run, octo_id, label_pad, first_stream, first_err>>
    /\ UNCHANGED <<packVars, vmVars, streamVars>>

TableName(p) == IF p \in {"wt_queue", "wt_loop"} THEN WidthTableName ELSE GlyphTableName
TableSec(p) == IF p \in {"wt_queue", "wt_loop"} THEN "width_table" ELSE "glyph_table"

\* write_queued_data_with_label up to its while loop
WriteQueuedBegin ==
    /\ pc \in {"wt_queue", "gt_queue"}
    /\ range_left = {}
    /\ LET o1 == Label(Octo, TableSec(pc), TableName(pc), " ")
           pad == PadForLabelName(o1, TableName(pc))
           o2 == [o1 EXCEPT !.pad_cache = (<<o1.self, TableName(pc)>> :> pad) @@ @]
       IN /\ Commit(o2, IF pc = "wt_queue" THEN "wt_loop" ELSE "gt_loop")
          /\ label_pad' = pad
    /\ UNCHANGED <<font, run, octo_id, range_left, first_stream, first_err>>
    /\ UNCHANGED <<packVars, vmVars, streamVars>>

\* C9 mutant: a pass pops the whole queue onto one line
WriteQueuedLineUnbounded(o, sec, pad, max_bytes_per_line) ==
    LET o2 == WriteChunk([o EXCEPT !.byte_queue = <<>>], sec, "print", <<>>, <<>>,
                         [k \in 1..Len(o.byte_queue) |-> padded_hex(o.byte_queue[k])], "\n")
    IN OctoPrint(o2, sec, <<>>, <<>>, "\n")

\* C11 mutant: a pass pops its bytes and prints all of them but the first
WriteQueuedLineDropping(o, sec, pad, max_bytes_per_line) ==
    LET num_to_pop == Min2(max_bytes_per_line, Len(o.byte_queue))
        popped == SubSeq(o.byte_queue, 2, num_to_pop)
        o1 == [o EXCEPT !.byte_queue = SubSeq(@, num_to_pop + 1, Len(@))]
        o2 == WriteChunk(o1, sec, "print", <<>>, <<>>,
                         [k \in 1..Len(popped) |-> padded_hex(popped[k])], "\n")
    IN OctoPrint(o2, sec, <<>>, <<>>, "\n")

\* one pass of the while loop
WriteQueuedLineOn(o, sec, pad, max_bytes_per_line) ==
    LET num_to_pop == Min2(max_bytes_per_line, Len(o.byte_queue))
        popped == SubSeq(o.byte_queue, 1, num_to_pop)
        o1 == [o EXCEPT !.byte_queue = SubSeq(@, num_to_pop + 1, Len(@))]
        o2 == WriteChunk(o1, sec, "print", <<>>, <<>>,
                         [k \in 1..num_to_pop |-> padded_hex(popped[k])], "\n")
        o3 == OctoPrint(o2, sec, <<>>, <<>>, "\n")
    IN IF o3.byte_queue # <<>> THEN OctoPrint(o3, sec, <<pad>>, <<>>, "") ELSE o3

WriteQueuedLine ==
    /\ pc \in {"wt_loop", "gt_loop"}
    /\ byte_queue # <<>>
    /\ Commit(WriteQueuedLineOn(Octo, TableSec(pc), label_pad, DefaultMaxBytesPerLine), pc)
    /\ UNCHANGED <<font, run, octo_id, label_pad, range_left, first_stream, first_err>>
    /\ UNCHANGED <<packVars, vmVars, streamVars>>

\* the while loop ends; emit_octo goes on to the glyph loop or returns
WriteQueuedReturn ==
    /\ pc \in {"wt_loop", "gt_loop"}
    /\ byte_queue = <<>>
    /\ pc' = IF pc = "wt_loop" THEN "gt_queue" ELSE "done"
    /\ range_left' = IF pc = "wt_loop" THEN GlyphRange(font) ELSE {}
    /\ UNCHANGED <<font, run, err, octo_id, stream, indent_level, byte_queue,
                   prefix_cache, pad_cache, label_pad, first_stream, first_err>>
    /\ UNCHANGED <<packVars, vmVars, streamVars>>

\* the caller runs emit_octo again on the same font with a new stream
CallAgain ==
    /\ pc \in {"done", "error"}
    /\ run = 1
    /\ run' = 2
    /\ first_stream' = stream
    /\ first_err' = err
    /\ octo_id' = octo_id + 1
    /\ stream' = <<>>
    /\ err' = ""
    /\ pc' = "check"
    /\ indent_level' = 0
    /\ byte_queue' = <<>>
    /\ label_pad' = ""
    /\ range_left' = {}
    /\ UNCHANGED <<font, prefix_cache, pad_cache>>
    /\ UNCHANGED <<packVars, vmVars, streamVars>>

Init ==
    /\ font \in Fonts
    /\ run = 1 /\ pc = "check" /\ err = "" /\ octo_id = 1 /\ stream = <<>>
    /\ indent_level = 0 /\ byte_queue = <<>> /\ prefix_cache = <<>>
    /\ pad_cache = <<>> /\ label_pad = "" /\ range_left = {}
    /\ first_stream = <<>> /\ first_err = ""
    /\ PackIdle
    /\ VmIdle
    /\ StreamIdle

Next ==
    \/ CheckDimensions
    \/ EmitHeader
    \/ EmitDrawGlyph
    \/ EmitWidthRoutines
    \/ EmitDrawStr
    \/ QueueWidth
    \/ WriteQueuedBegin
    \/ WriteQueuedLine
    \/ WriteQueuedReturn
    \/ QueueGlyph
    \/ CallAgain

Spec == Init /\ [][Next]_vars

\* ------------------------------------------------------------ row packing
\* The packing loop of the glyph table taken alone: one row of glyph_width
\* pixels, folded pixel by pixel and then aligned to the left.

PixelValues == {0, 1, 255}

FoldNextPixel ==
    /\ pack_pc = "fold"
    /\ row_left # <<>>
    /\ packed_row_data' = FoldPixel(packed_row_data, Head(row_left))
    /\ row_left' = Tail(row_left)
    /\ UNCHANGED <<row, row_width, pack_pc>>
    /\ UNCHANGED <<emitVars, vmVars, streamVars>>

AlignRow ==
    /\ pack_pc = "fold"
    /\ row_left = <<>>
    /\ packed_row_data' = AlignLeft(packed_row_data, row_width)
    /\ pack_pc' = "packed"
    /\ UNCHANGED <<row, row_left, row_width>>
    /\ UNCHANGED <<emitVars, vmVars, streamVars>>

InitPack ==
    /\ row_width \in 1..CharSize
    /\ row \in [1..row_width -> PixelValues]
    /\ row_left = row
    /\ packed_row_data = 0
    /\ pack_pc = "fold"
    /\ font = FontOf(CharSize, CharSize, 0, 0, <<>>)
    /\ EmitIdle
    /\ VmIdle
    /\ StreamIdle

NextPack == FoldNextPixel \/ AlignRow

SpecPack == InitPack /\ [][NextPack]_vars

\* ------------------------------------------------------------ the target VM
\* The Octo statements emit_octo prints, run on CHIP-8 registers: v0 and v1
\* hold 8 bits, i is an address (a table and an offset into it).

\* The program a stream of chunks assembles to: every printed statement is
\* one instruction, a label names the address of the next instruction.
RECURSIVE AssembleFrom(_, _, _)
AssembleFrom(chunks, acc_code, acc_labels) ==
    IF chunks = <<>> THEN [code |-> acc_code, labels |-> acc_labels]
    ELSE LET ch == Head(chunks)
         IN CASE ch.kind = "label" ->
                   AssembleFrom(Tail(chunks), acc_code,
                                (ch.txt[1] :> (Len(acc_code) + 1)) @@ acc_labels)
              [] ch.kind = "print" ->
                   AssembleFrom(Tail(chunks),
                                acc_code \o [k \in 1..Len(ch.txt) |->
                                    [stmt |-> ch.txt[k],
                                     arg |-> IF ch.args = <<>> THEN 0 ELSE ch.args[1]]],
                                acc_labels)
              [] OTHER -> AssembleFrom(Tail(chunks), acc_code, acc_labels)

Assemble(chunks) == AssembleFrom(chunks, <<>>, <<>>)

Running == vpc \in DOMAIN code
Instr == code[vpc]

VmFrame == UNCHANGED <<code, labels, mem, vm_in>> /\ UNCHANGED <<emitVars, packVars, streamVars>>

\* vX += NN
VmAddImm ==
    /\ Running /\ Instr.stmt = StmtAddImm
    /\ v0' = (v0 + Instr.arg) % RegMod
    /\ vpc' = vpc + 1
    /\ UNCHANGED <<v1, ireg, stack>> /\ VmFrame

\* i := label
VmSetIndex ==
    /\ Running /\ Instr.stmt \in {StmtSetGlyphTable, StmtSetWidthTable}
    /\ ireg' = [base |-> IF Instr.stmt = StmtSetGlyphTable
                         THEN GlyphTableName ELSE WidthTableName,
                off |-> 0]
    /\ vpc' = vpc + 1
    /\ UNCHANGED <<v0, v1, stack>> /\ VmFrame

\* i += v0
VmAddIndex ==
    /\ Running /\ Instr.stmt = StmtAddIndex
    /\ ireg' = [ireg EXCEPT !.off = @ + v0]
    /\ vpc' = vpc + 1
    /\ UNCHANGED <<v0, v1, stack>> /\ VmFrame

\* v0 <<= v0
VmShl ==
    /\ Running /\ Instr.stmt = StmtShl
    /\ v0' = (v0 * 2) % RegMod
    /\ vpc' = vpc + 1
    /\ UNCHANGED <<v1, ireg, stack>> /\ VmFrame

\* v0 >>= v0
VmShr ==
    /\ Running /\ Instr.stmt = StmtShr
    /\ v0' = v0 \div 2
    /\ vpc' = vpc + 1
    /\ UNCHANGED <<v1, ireg, stack>> /\ VmFrame

\* sprite vx vy n: draws, changes neither v0, v1 nor i
VmSprite ==
    /\ Running /\ Instr.stmt = StmtSprite
    /\ vpc' = vpc + 1
    /\ UNCHANGED <<v0, v1, ireg, stack>> /\ VmFrame

\* a label used as a statement calls it
VmCall ==
    /\ Running /\ Instr.stmt \in DOMAIN labels
    /\ stack' = <<vpc + 1>> \o stack
    /\ vpc' = labels[Instr.stmt]
    /\ UNCHANGED <<v0, v1, ireg>> /\ VmFrame

\* v1 += v0
VmAddWidth ==
    /\ Running /\ Instr.stmt = StmtAddWidth
    /\ v1' = (v1 + v0) % RegMod
    /\ vpc' = vpc + 1
    /\ UNCHANGED <<v0, ireg, stack>> /\ VmFrame

\* v1 += 1
VmAddKern ==
    /\ Running /\ Instr.stmt = StmtAddKern
    /\ v1' = (v1 + 1) % RegMod
    /\ vpc' = vpc + 1
    /\ UNCHANGED <<v0, ireg, stack>> /\ VmFrame

\* load v0: the byte i points at; past the width table it is whatever the
\* memory holds there
VmLoad ==
    /\ Running /\ Instr.stmt = StmtLoad
    /\ v0' \in (IF ireg.base = WidthTableName /\ ireg.off < Len(mem)
                THEN {mem[ireg.off + 1]} ELSE 0..(RegMod - 1))
    /\ vpc' = vpc + 1
    /\ UNCHANGED <<v1, ireg, stack>> /\ VmFrame

\* return: to the caller, which for the outermost routine ends the run
VmReturn ==
    /\ Running /\ Instr.stmt = "return"
    /\ vpc' = IF stack = <<>> THEN 0 ELSE Head(stack)
    /\ stack' = IF stack = <<>> THEN <<>> ELSE Tail(stack)
    /\ UNCHANGED <<v0, v1, ireg>> /\ VmFrame

FreshOcto == NewOctoStream(1, <<>>, <<>>, <<>>)

\* The shift/add lines for one font height, run on a character index.
InitShift ==
    /\ \E h \in 1..8, index \in 0..(RegMod - 1) :
         /\ vm_in = [c |-> index, x |-> 0, h |-> h]
         /\ code = Assemble(RunCalls(FreshOcto, "draw", ShiftCalls(h)).stream).code
         /\ v0 = index
    /\ labels = <<>> /\ mem = <<>> /\ vpc = 1 /\ stack = <<>> /\ v1 = 0
    /\ ireg = [base |-> GlyphTableName, off |-> 0]
    /\ font = FontOf(CharSize, CharSize, 0, 0, <<>>)
    /\ EmitIdle
    /\ PackIdle
    /\ StreamIdle

NextShift == VmAddIndex \/ VmShl \/ VmShr

SpecShift == InitShift /\ [][NextShift]_vars

\* Fonts for the draw routine: NumDrawGlyphs glyphs of widths 1..5 in turn,
\* all as tall as the font (gh = h) or all one row tall (gh = 1).
DrawFontGlyph(k, gh) == MkGlyph(1 + (k % 5), gh, [j \in 1..((1 + (k % 5)) * gh) |-> 0])

DrawFontsOfHeight(h) ==
    { FontOf(CharSize, h, f, NumDrawGlyphs,
             [c \in f..(f + NumDrawGlyphs - 1) |-> DrawFontGlyph(c - f, gh)]) :
        f \in {1, 65}, gh \in {1, h} }

DrawFonts == UNION { DrawFontsOfHeight(h) : h \in 1..8 }

\* the bytes of the width table as emit_octo queues them
WidthTableBytes(f) ==
    [k \in 1..(f.last_glyph - f.first_glyph + 1) |->
        GlyphWidthByte(f.glyph[f.first_glyph + k - 1], f.max_height)]

\* the draw and width routines as emit_octo prints them
RoutineChunks(f) ==
    RunCalls(RunCalls(FreshOcto, "draw", DrawGlyphCalls(f)),
             "width", WidthRoutineCalls(f)).stream

\* A call of the generated draw routine with a code of the font in v0.
InitDraw ==
    /\ font \in DrawFonts
    /\ \E c \in GlyphRange(font) :
         /\ vm_in = [c |-> c, x |-> 0, h |-> font.max_height]
         /\ v0 = c
    /\ code = Assemble(RoutineChunks(font)).code
    /\ labels = Assemble(RoutineChunks(font)).labels
    /\ mem = WidthTableBytes(font)
    /\ vpc = labels[DrawFuncName]
    /\ stack = <<>> /\ v1 = 0
    /\ ireg = [base |-> "", off |-> 0]
    /\ EmitIdle
    /\ PackIdle
    /\ StreamIdle

NextDraw ==
    \/ VmAddImm
    \/ VmSetIndex
    \/ VmAddIndex
    \/ VmShl
    \/ VmShr
    \/ VmSprite
    \/ VmCall
    \/ VmAddWidth
    \/ VmAddKern
    \/ VmLoad
    \/ VmReturn

SpecDraw == InitDraw /\ [][NextDraw]_vars

\* ------------------------------------------------- OctoStream: the queue
\* An OctoStream taken alone: its caller queues bytes with queue_data and
\* calls write_queued_data_with_label, up to MaxCalls times, with the same
\* max_bytes_per_line >= 1 each time.  pc is "idle" while the object is at
\* rest, "wq_loop" inside the while loop, "wq_returned" once a call is back.

MaxQueued == 4

MaxPerLine == 3

MaxCalls == 2

ByteChoices == {10, 255}

\* queue_data: byte_queue.extend(byte_source)
QueueData(o, byte_source) == [o EXCEPT !.byte_queue = @ \o byte_source]

StreamQueueData ==
    /\ pc \in {"idle", "wq_returned"}
    /\ \E n \in 1..2 : \E byte_source \in [1..n -> ByteChoices] :
         /\ Len(queued) + n <= MaxQueued
         /\ Commit(QueueData(Octo, byte_source), "idle")
         /\ queued' = queued \o byte_source
    /\ UNCHANGED <<font, run, octo_id, label_pad, range_left, first_stream, first_err>>
    /\ UNCHANGED <<bytes_per_line, begun, closed, last_op>>
    /\ UNCHANGED <<packVars, vmVars>>

\* write_queued_data_with_label up to its while loop
StreamWriteBegin ==
    /\ pc \in {"idle", "wq_returned"}
    /\ Cardinality({k \in DOMAIN stream : stream[k].kind = "label"}) < MaxCalls
    /\ \E label_name \in {WidthTableName, GlyphTableName} :
         LET o1 == Label(Octo, "table", label_name, " ")
             pad == PadForLabelName(o1, label_name)
             o2 == [o1 EXCEPT !.pad_cache = (<<o1.self, label_name>> :> pad) @@ @]
         IN /\ Commit(o2, "wq_loop")
            /\ label_pad' = pad
    /\ UNCHANGED <<font, run, octo_id, range_left, first_stream, first_err>>
    /\ UNCHANGED <<packVars, vmVars, streamVars>>

\* one pass of the while loop
StreamWriteLine ==
    /\ pc = "wq_loop"
    /\ byte_queue # <<>>
    /\ Commit(WriteQueuedLineOn(Octo, "table", label_pad, bytes_per_line), "wq_loop")
    /\ UNCHANGED <<font, run, octo_id, label_pad, range_left, first_stream, first_err>>
    /\ UNCHANGED <<packVars, vmVars, streamVars>>

\* the while loop ends and the call returns
StreamWriteReturn ==
    /\ pc = "wq_loop"
    /\ byte_queue = <<>>
    /\ pc' = "wq_returned"
    /\ UNCHANGED <<font, run, err, octo_id, stream, indent_level, byte_queue,
                   prefix_cache, pad_cache, label_pad, range_left, first_stream,
                   first_err>>
    /\ UNCHANGED <<packVars, vmVars, streamVars>>

InitQueue ==
    /\ bytes_per_line \in 1..MaxPerLine
    /\ queued = <<>> /\ begun = <<>> /\ closed = NoPair /\ last_op = NoOp
    /\ font = FontOf(CharSize, CharSize, 0, 0, <<>>)
    /\ EmitIdle
    /\ PackIdle
    /\ VmIdle

NextQueue ==
    \/ StreamQueueData
    \/ StreamWriteBegin
    \/ StreamWriteLine
    \/ StreamWriteReturn

\* The call runs on one thread: once in the loop, it keeps taking steps.
\* Weak fairness of StreamWriteLine is written out, with the guard of the
\* action (which changes byte_queue whenever it is taken) for its ENABLED.
SpecQueue ==
    /\ InitQueue
    /\ [][NextQueue]_vars
    /\ WF_vars(StreamWriteReturn)
    /\ \/ []<>(~(pc = "wq_loop" /\ byte_queue # <<>>))
       \/ []<><<StreamWriteLine>>_vars

\* ------------------------------------------------ OctoStream: the indent
\* An OctoStream taken alone: its caller makes begin_indented_func and
\* end_indented_func calls and indent_level assignments in any order, and
\* goes on after an exception.  err is the exception of the last
\* operation; begun holds, for every begin not yet ended, the level it
\* started from and whether indent_level was assigned since; closed is the
\* pair ended last, with the level its end left.

MaxIndent == 2

MaxWritten == 4

\* the operation is over: the fields of the object and the exception raised
Settle(o) ==
    /\ stream' = o.stream
    /\ indent_level' = o.indent_level
    /\ byte_queue' = o.byte_queue
    /\ prefix_cache' = o.prefix_cache
    /\ pad_cache' = o.pad_cache
    /\ err' = o.err
    /\ pc' = "idle"

StreamBegin ==
    /\ pc = "idle"
    /\ indent_level < MaxIndent
    /\ Len(stream) < MaxWritten
    /\ Settle(BeginIndentedFunc(Octo, "func", DrawFuncName))
    /\ begun' = <<[from |-> indent_level, assigned |-> FALSE]>> \o begun
    /\ last_op' = [kind |-> "begin", arg |-> 0, before |-> indent_level]
    /\ UNCHANGED <<font, run, octo_id, label_pad, range_left, first_stream, first_err>>
    /\ UNCHANGED <<bytes_per_line, queued, closed>>
    /\ UNCHANGED <<packVars, vmVars>>

StreamEnd ==
    /\ pc = "idle"
    /\ Len(stream) < MaxWritten
    /\ Settle(EndIndentedFunc(Octo, "func"))
    /\ IF begun = <<>>
       THEN UNCHANGED <<begun, closed>>
       ELSE /\ begun' = Tail(begun)
            /\ closed' = [from |-> Head(begun).from, to |-> indent_level',
                          assigned |-> Head(begun).assigned]
    /\ last_op' = [kind |-> "end", arg |-> 0, before |-> indent_level]
    /\ UNCHANGED <<font, run, octo_id, label_pad, range_left, first_stream, first_err>>
    /\ UNCHANGED <<bytes_per_line, queued>>
    /\ UNCHANGED <<packVars, vmVars>>

StreamSetIndent ==
    /\ pc = "idle"
    /\ \E new_level \in (-1)..MaxIndent :
         /\ Settle(SetIndentLevel(Octo, new_level))
         /\ last_op' = [kind |-> "assign", arg |-> new_level, before |-> indent_level]
    /\ begun' = [k \in DOMAIN begun |-> [begun[k] EXCEPT !.assigned = TRUE]]
    /\ UNCHANGED <<font, run, octo_id, label_pad, range_left, first_stream, first_err>>
    /\ UNCHANGED <<bytes_per_line, queued, closed>>
    /\ UNCHANGED <<packVars, vmVars>>

InitIndent ==
    /\ font = FontOf(CharSize, CharSize, 0, 0, <<>>)
    /\ EmitIdle
    /\ PackIdle
    /\ VmIdle
    /\ StreamIdle

NextIndent ==
    \/ StreamBegin
    \/ StreamEnd
    \/ StreamSetIndent

SpecIndent == InitIndent /\ [][NextIndent]_vars

\* ================================================================ claims

\* the hex literals of the chunks of one section, in output order
RECURSIVE SectionHex(_, _)
SectionHex(chunks, sec) ==
    IF chunks = <<>> THEN <<>>
    ELSE (IF Head(chunks).sec = sec THEN Head(chunks).hex ELSE <<>>)
         \o SectionHex(Tail(chunks), sec)

\* the number of hex literals on every output line that has been ended
RECURSIVE LineLiterals(_, _)
LineLiterals(chunks, open) ==
    IF chunks = <<>> THEN <<>>
    ELSE LET n == open + Len(Head(chunks).hex)
         IN IF Head(chunks).end = "\n"
            THEN <<n>> \o LineLiterals(Tail(chunks), 0)
            ELSE LineLiterals(Tail(chunks), n)

\* the names of the labels written, in output order
RECURSIVE LabelNames(_)
LabelNames(chunks) ==
    IF chunks = <<>> THEN <<>>
    ELSE (IF Head(chunks).kind = "label" THEN <<Head(chunks).txt[1]>> ELSE <<>>)
         \o LabelNames(Tail(chunks))

SecRank(sec) ==
    CASE sec = "header" -> 1 [] sec = "draw" -> 2 [] sec = "width" -> 3
      [] sec = "drawstr" -> 4 [] sec = "width_table" -> 5 [] sec = "glyph_table" -> 6

IsHeaderLine(ch) ==
    ch.kind = "print" /\ ch.txt = <<"# Font: " \o Prefix \o "  Available characters: ">>

BadDimensions(f) == f.max_width \notin 1..8 \/ f.max_height \notin 1..8
MissingGlyphs(f) == GlyphRange(f) \ DOMAIN f.glyph
WidthTableWritten == pc \in {"gt_queue", "gt_loop", "done"}

\* every glyph of the range is there, no wider than max_width, no taller
\* than max_height
WellFormed(f) ==
    /\ ~BadDimensions(f)
    /\ MissingGlyphs(f) = {}
    /\ \A c \in GlyphRange(f) :
         /\ f.glyph[c].size[1] <= f.max_width
         /\ f.glyph[c].size[2] <= f.max_height

\* C1: for every height 1..8 and every index 0..255, once the emitted
\* shift/add lines have run, i has advanced by index * height.
C1_ShiftAddAdvancesIndex ==
    (vpc = Len(code) + 1) => ireg.off = vm_in.c * vm_in.h

\* C2: a call on a font whose max_width or max_height is outside 1..8 ends
\* in an error with nothing written to the stream.
C2_NoOutputOnBadDimensions ==
    (BadDimensions(font) /\ pc \in {"done", "error"}) =>
        (pc = "error" /\ stream = <<>>)

\* C3: a call on a font of valid dimensions with a code of
\* [first_glyph, last_glyph] missing ends in an error with nothing written
\* to the stream.
C3_MissingGlyphBeforeOutput ==
    (~BadDimensions(font) /\ MissingGlyphs(font) # {} /\ pc \in {"done", "error"}) =>
        (pc = "error" /\ stream = <<>>)

\* C4: the sections are written in the order header, draw routine, width
\* routines, string-draw label, width table, glyph table, none interleaved
\* with another, and a completed run holds one header line and each of the
\* six labels once, in that order.
C4_SectionsInOrder ==
    /\ \A j, k \in DOMAIN stream :
         j < k => SecRank(stream[j].sec) <= SecRank(stream[k].sec)
    /\ pc = "done" =>
         /\ LabelNames(stream) = <<DrawFuncName, WidthFuncName, NoOffsetName,
                                   DrawStrName, WidthTableName, GlyphTableName>>
         /\ Cardinality({k \in DOMAIN stream : IsHeaderLine(stream[k])}) = 1
         /\ \A k \in DOMAIN stream : IsHeaderLine(stream[k]) => stream[k].sec = "header"
         /\ \A k \in DOMAIN stream :
              stream[k].kind = "label" =>
                stream[k].sec = CASE stream[k].txt[1] = DrawFuncName -> "draw"
                                  [] stream[k].txt[1] = WidthFuncName -> "width"
                                  [] stream[k].txt[1] = NoOffsetName -> "width"
                                  [] stream[k].txt[1] = DrawStrName -> "drawstr"
                                  [] stream[k].txt[1] = WidthTableName -> "width_table"
                                  [] stream[k].txt[1] = GlyphTableName -> "glyph_table"

\* C4 witness: a completed first run with bytes in both tables
C4_Witness ==
    /\ pc = "done" /\ run = 1
    /\ SectionHex(stream, "width_table") # <<>>
    /\ SectionHex(stream, "glyph_table") # <<>>

\* C5: for a well-formed font the width table holds one literal per code of
\* the range, ascending, the literal of code c being the pixel width of c.
C5_WidthTableHoldsPixelWidths ==
    (WellFormed(font) /\ WidthTableWritten) =>
        SectionHex(stream, "width_table") =
            [k \in 1..(font.last_glyph - font.first_glyph + 1) |->
                padded_hex(font.glyph[font.first_glyph + k - 1].size[1])]

\* C6: the draw routine, entered with a code c of the font in v0, returns
\* with v1 increased by the pixel width of glyph c plus 1.
C6_DrawAdvancesXByWidth ==
    (vpc = 0) => v1 = vm_in.x + font.glyph[vm_in.c].size[1] + 1

\* C7: the constant added to v0 at the start of the draw routine and of the
\* width routine is (256 - first_glyph) mod 256, a value in 0..255.
C7_OffsetConstantIsByte ==
    \A k \in DOMAIN stream :
        (~BadDimensions(font) /\ stream[k].txt = <<StmtAddImm>>) =>
            /\ stream[k].args[1] = (RegMod - font.first_glyph) % RegMod
            /\ stream[k].args[1] \in 0..(RegMod - 1)

Bit(v, b) == (v \div Pow2(b)) % 2

\* C8: a packed row of w pixels (w in 1..8) is a byte whose top w bits, left
\* to right, are the foreground flags of the pixels and whose other bits
\* are zero.
C8_PackedRowRoundTrips ==
    (pack_pc = "packed") =>
        /\ packed_row_data \in 0..255
        /\ \A k \in 1..row_width :
             Bit(packed_row_data, 8 - k) = (IF row[k] # 0 THEN 1 ELSE 0)
        /\ packed_row_data % Pow2(8 - row_width) = 0

\* C8 witness: the 3-pixel row on, off, on packed to 0b10100000
C8_Witness ==
    /\ pack_pc = "packed" /\ row = <<255, 0, 1>> /\ packed_row_data = 160

\* C9 as stated: no output line holds more than 8 hex literals.
C9_AtMostEightLiteralsPerLine ==
    \A k \in DOMAIN LineLiterals(stream, 0) : LineLiterals(stream, 0)[k] <= 8

\* C9 amended: no output line holds more than 16 hex literals, the default
\* max_bytes_per_line that emit_octo leaves in force.
C9_AtMostSixteenLiteralsPerLine ==
    \A k \in DOMAIN LineLiterals(stream, 0) : LineLiterals(stream, 0)[k] <= 16

\* C9 witness: a glyph table of more than 16 bytes, written out on a full
\* line of 16 literals and a further line
C9_Witness ==
    /\ pc = "done"
    /\ Len(SectionHex(stream, "glyph_table")) > 16
    /\ \E k \in DOMAIN LineLiterals(stream, 0) : LineLiterals(stream, 0)[k] = 16

\* C10: a second run over the same font, made in the same process after the
\* first, ends the way the first did and has written the same text.
C10_SecondRunWritesTheSame ==
    (run = 2 /\ pc \in {"done", "error"}) =>
        (stream = first_stream /\ err = first_err)

\* C10 witness: a completed second run over two or more glyphs, the caches
\* holding the entries of both emitters
C10_Witness ==
    /\ run = 2 /\ pc = "done"
    /\ Cardinality(DOMAIN font.glyph) >= 2
    /\ SectionHex(stream, "glyph_table") # <<>>
    /\ {<<1, 1>>, <<2, 1>>} \subseteq DOMAIN prefix_cache
    /\ {<<1, GlyphTableName>>, <<2, GlyphTableName>>} \subseteq DOMAIN pad_cache

\* the literals of a sequence of bytes
HexOf(bytes) == [k \in DOMAIN bytes |-> padded_hex(bytes[k])]

C11_QueueConserved ==
    /\ SectionHex(stream, "table") \o HexOf(byte_queue) = HexOf(queued)
    /\ \A k \in DOMAIN LineLiterals(stream, 0) :
         LineLiterals(stream, 0)[k] <= bytes_per_line
    /\ pc = "wq_returned" =>
         (byte_queue = <<>> /\ SectionHex(stream, "table") = HexOf(queued))

\* C11: for every queue content and every max_bytes_per_line >= 1 a call of
\* write_queued_data_with_label returns, with the queue empty and every
\* queued byte written once, in the order queued, on lines of at most
\* max_bytes_per_line literals; a call that follows (the next table section)
\* starts from an empty queue and writes only the bytes queued since.
C11_WriteQueuedDrains ==
    /\ []C11_QueueConserved
    /\ (pc = "wq_loop") ~> (pc = "wq_returned")

\* C11 witness: a second call is back, the bytes of both calls written,
\* three of them or more, two to a line
C11_Witness ==
    /\ pc = "wq_returned" /\ bytes_per_line = 2
    /\ Len(LabelNames(stream)) = 2
    /\ Len(queued) >= 3
    /\ stream[Len(stream)].sec = "table"
    /\ \E k \in DOMAIN LineLiterals(stream, 0) : LineLiterals(stream, 0)[k] = 2
    /\ \E k \in DOMAIN stream : k > 2 /\ stream[k].kind = "label" /\ k < Len(stream) - 1

\* the operation would leave indent_level below zero
WouldBeNegative(op) ==
    \/ op.kind = "assign" /\ op.arg < 0
    \/ op.kind = "end" /\ op.before - 1 < 0

\* indent_level never goes below zero: an operation that would take it
\* there raises ValueError and leaves it as it was, any other succeeds
IndentStaysNonNegative ==
    /\ indent_level >= 0
    /\ (last_op # NoOp /\ WouldBeNegative(last_op)) =>
         (err = "ValueError" /\ indent_level = last_op.before)
    /\ (last_op # NoOp /\ ~WouldBeNegative(last_op)) => err = ""

GlyphTableHex == SectionHex(stream, "glyph_table")

\* C13: after a completed run on a well-formed font (no glyph taller than
\* max_height) the glyph table holds max_height bytes for every code of the
\* range, and the packed rows of the glyph of code c start at byte offset
\* (c - first_glyph) * max_height.
C13_GlyphRowsAtCodeTimesHeight ==
    (WellFormed(font) /\ pc = "done") =>
        /\ Len(GlyphTableHex) =
             (font.last_glyph - font.first_glyph + 1) * font.max_height
        /\ \A c \in GlyphRange(font) :
             LET off == (c - font.first_glyph) * font.max_height
                 rows == HexOf(GlyphRowBytes(font.glyph[c]))
             IN /\ off + Len(rows) <= Len(GlyphTableHex)
                /\ SubSeq(GlyphTableHex, off + 1, off + Len(rows)) = rows

====
